---- MODULE Spec2Model ----
(***************************************************************************)
(* Model of the Serendipity generation service (services/geminiService.ts) *)
(* and of the App component that drives it (constants.ts).                 *)
(*                                                                         *)
(* Every await of the code is a suspension point: the code between two     *)
(* awaits runs atomically on the JavaScript event loop and is one action   *)
(* here.  The remote capabilities (text, image edit, image synthesis,      *)
(* video, download) are the environment: each response action draws the    *)
(* response from a small set that covers the shapes the code distinguishes.*)
(***************************************************************************)
EXTENDS Integers, Sequences, FiniteSets, TLC

\* ------------------------------------------------------------------ bounds
MaxImages == 2      \* longest inspirationImages list that is enumerated
MaxParts  == 2      \* longest parts list of an image-edit response
MaxPolls  == 2      \* the poll counter saturates here (the loop itself is unbounded)
MaxTicks  == 1      \* ticks of the loading-message interval that are followed per run

\* --------------------------------------------------------- JavaScript values
\* undefined / null of a string-valued field; both are falsy, like "".
Undefined == "<undefined>"

Falsy(v) == v \in {Undefined, ""}

\* ------------------------------------------------------------- error texts
PipelineFailedMsg   == "Failed to generate the final video."
ScriptsFailedMsg    == "Failed to generate scripts from the idea."
EditPromptMissingMsg == "Failed to generate a keyframe editing prompt."
NoEditImageMsg      == "Nano Banana model did not return an image."
NoImagenImageMsg    == "Imagen model did not return an image."
NoDownloadLinkMsg   == "Video generation did not produce a download link."
DownloadFailedMsg   == "Failed to download video"
NoScriptsMsg        == "The AI couldn't generate any scripts. Try adjusting your inputs."
\* errors raised by the runtime or by the SDK, not by this repository
TransportError      == "transport error"
JsonSyntaxError     == "SyntaxError: JSON.parse"
TypeErrorMsg        == "TypeError: cannot read properties of undefined"
CallbackError       == "error thrown by the progress callback"

\* --------------------------------------------------------- progress messages
MsgDevelopingPrompts   == "Developing creative prompts for AI models..."
MsgEditingImage        == "Editing inspiration image to create a keyframe..."
MsgGeneratingKeyframe  == "Generating a keyframe image from your script..."
MsgDevelopingVideoPrompt == "Developing a video prompt from your script..."
MsgGeneratingVideo     == "Generating video with VEO 2.0 (this may take several minutes)..."
MsgDownloading         == "Downloading generated video..."

\* ------------------------------------------------------------------- data
\* InspirationFile (types.ts): the fields the service reads.
PngFile  == [name |-> "a.png", mimeType |-> "image/png",  base64 |-> "b64-a", description |-> ""]
JpegFile == [name |-> "b.jpg", mimeType |-> "image/jpeg", base64 |-> "b64-b", description |-> "warm sunset tones"]
Mp4File  == [name |-> "c.mp4", mimeType |-> "video/mp4",  base64 |-> "b64-c", description |-> ""]
AudioFile == [name |-> "song.mp3", mimeType |-> "audio/mpeg", base64 |-> "b64-s", description |-> ""]
\* a second recording under the same filename: only the encoded bytes differ
AudioFileRemix == [name |-> "song.mp3", mimeType |-> "audio/mpeg", base64 |-> "b64-t", description |-> ""]

SeqsUpTo(S, n) == UNION {[1..k -> S] : k \in 0..n}

\* inspirationAudio: InspirationFile | null, as a list of length <= 1
NoAudio == <<>>

validAspectRatios == {"1:1", "3:4", "4:3", "9:16", "16:9"}

\* aspect-ratio strings a caller of the service may pass
AspectInputs == validAspectRatios \cup {"7:3", ""}

Script1 == [title |-> "T1", logline |-> "L1", fullScript |-> "S1"]

\* scripts a caller of the service passes (the script only flows into prompts)
ServiceScripts == {Script1}

\* UserInput (types.ts) as the service functions may receive it
ServiceInputs ==
    [ idea              : {"a robot chef"},
      inspirationImages : SeqsUpTo({PngFile, JpegFile}, MaxImages),
      inspirationVideos : {<<>>, <<Mp4File>>},
      inspirationAudio  : {NoAudio, <<AudioFile>>, <<AudioFileRemix>>},
      aspectRatio       : AspectInputs ]


\* ------------------------------------------------------------------ state
VARIABLES
    \* --- one invocation of generateVideoFromScript
    pc,               \* suspension point of the run ("idle" before the call, "settled" after)
    args,             \* <<>> or <<[script, userInput, cbThrows]>>: the arguments of the run
    keyframeBase64,   \* let keyframeBase64   (geminiService.ts:190)
    keyframeMimeType, \* let keyframeMimeType (geminiService.ts:191)
    videoPrompt,      \* let videoPrompt      (geminiService.ts:192)
    operation,        \* let operation        (geminiService.ts:160)
    pollCount,        \* getVideosOperation calls so far, saturating at MaxPolls
    events,           \* progress reports and external calls of the run, in order
    logged,           \* console.error output: the specific causes
    outcome,          \* what the caller of generateVideoFromScript observes
    received,         \* <<>> or <<[api, value]>>: the response the run received last
    \* --- one invocation of generateScripts
    sgPc,             \* "idle", "await" (request in flight) or "settled"
    sgArgs,           \* <<>> or <<userInput>>: the argument of the call
    sgRequest,        \* <<>> or <<prompt>>: the request sent to the text model
    sgOutcome,        \* what the caller of generateScripts observes
    sgReceived,       \* <<>> or <<response>>: the response generateScripts received
    \* --- App component state (useState cells of constants.ts:36-48)
    stage, userInput, error, isLoading, scripts, selectedScript,
    loadingMessage, finalVideoUrl, finalKeyframeUrl,
    \* --- the loading-message effect (constants.ts:54-65)
    interval,         \* whether the effect of the current stage has set its interval
    messageIndex      \* let messageIndex (constants.ts:57)

pipeVars == <<pc, args, keyframeBase64, keyframeMimeType, videoPrompt, operation,
              pollCount, events, logged, outcome, received>>
sgVars   == <<sgPc, sgArgs, sgRequest, sgOutcome, sgReceived>>
effectVars == <<interval, messageIndex>>
appVars  == <<stage, userInput, error, isLoading, scripts, selectedScript,
              finalVideoUrl, finalKeyframeUrl, effectVars>>
vars     == <<pipeVars, sgVars, appVars, loadingMessage>>

\* ----------------------------------------------------------- observations
NoOutcome == [kind |-> "none",     message |-> "", videoUrl |-> Undefined, keyframeUrl |-> <<>>]
Pending   == [kind |-> "pending",  message |-> "", videoUrl |-> Undefined, keyframeUrl |-> <<>>]

Rejected(msg) ==
    [kind |-> "rejected", message |-> msg, videoUrl |-> Undefined, keyframeUrl |-> <<>>]

Resolved(videoUrl, keyframeUrl) ==
    [kind |-> "resolved", message |-> "", videoUrl |-> videoUrl, keyframeUrl |-> keyframeUrl]

Response(api, value) == <<[api |-> api, value |-> value]>>

ProgressEv(m) == [type |-> "progress", message |-> m]

CallEv(api, request) == [type |-> "call", api |-> api, request |-> request]

Called(api) == \E i \in DOMAIN events : events[i].type = "call" /\ events[i].api = api

CallsOf(api) == {i \in DOMAIN events : events[i].type = "call" /\ events[i].api = api}

Reported(m) == \E i \in DOMAIN events : events[i].type = "progress" /\ events[i].message = m

\* the request of the (single) call of api; only used where Called(api)
RequestOf(api) == events[CHOOSE i \in CallsOf(api) : TRUE].request

\* ------------------------------------------------ pure parts of the service
\* variant: the comparison is off by one
TakesEditPath_OffByOne(input) == Len(input.inspirationImages) > 1

\* geminiService.ts:194  if (userInput.inspirationImages.length > 0)
TakesEditPath(input) == Len(input.inspirationImages) > 0

\* variant: the image supplied last is used
inspirationImage_Last(input) == input.inspirationImages[Len(input.inspirationImages)]

\* geminiService.ts:195  const inspirationImage = userInput.inspirationImages[0]
inspirationImage(input) == input.inspirationImages[1]

\* variant: the keyframe is always labelled PNG
InspirationMimeType_AlwaysPng(image) == "image/png"

\* geminiService.ts:195-196  keyframeMimeType = inspirationImage.mimeType
InspirationMimeType(image) == image.mimeType

\* geminiService.ts:89-96  responseSchema of getVideoGenerationPrompts
PromptsSchema(needsEditPrompt) ==
    [ properties |-> IF needsEditPrompt THEN {"videoPrompt", "keyframeEditPrompt"}
                                        ELSE {"videoPrompt"},
      required   |-> {"videoPrompt"} ]

\* variant: only a missing field is rejected, an empty prompt passes
EditPromptMissing_OnlyUndefined(keyframeEditPrompt) == keyframeEditPrompt = Undefined

\* geminiService.ts:203  if (!prompts.keyframeEditPrompt)
EditPromptMissing(keyframeEditPrompt) == Falsy(keyframeEditPrompt)

\* variant: the loop falls through and returns undefined instead of throwing
FirstInlineData_NoThrow(parts) ==
    LET hits == {i \in DOMAIN parts : parts[i] # Undefined}
    IN  IF hits = {} THEN <<Undefined>>
        ELSE <<parts[CHOOSE i \in hits : \A j \in hits : i <= j]>>

\* geminiService.ts:117-122  first part with inlineData; <<>> when there is none
FirstInlineData(parts) ==
    LET hits == {i \in DOMAIN parts : parts[i] # Undefined}
    IN  IF hits = {} THEN <<>>
        ELSE <<parts[CHOOSE i \in hits : \A j \in hits : i <= j]>>

\* variant: the requested value is passed on unchecked
ValidatedAspectRatio_Unchecked(aspectRatio) == aspectRatio

\* geminiService.ts:138-139
ValidatedAspectRatio(aspectRatio) ==
    IF aspectRatio \in validAspectRatios THEN aspectRatio ELSE "16:9"

\* String.prototype.trim on a text given as a sequence of characters
RECURSIVE TrimLeft(_)
TrimLeft(t) == IF t # <<>> /\ Head(t) = " " THEN TrimLeft(Tail(t)) ELSE t

RECURSIVE TrimRight(_)
TrimRight(t) ==
    IF t # <<>> /\ t[Len(t)] = " " THEN TrimRight(SubSeq(t, 1, Len(t) - 1)) ELSE t

Trim(t) == TrimRight(TrimLeft(t))

\* variant: the loop is left after the first look at the operation
LoopContinues_Never(op) == FALSE

\* variant: the loop tests for a response payload instead of the done flag
LoopContinues_NoPayload(op) == op.shape = "noResponse"

\* geminiService.ts:172  while (!operation.done)
LoopContinues(op) == ~op.done

\* geminiService.ts:177  operation.response?.generatedVideos?.[0]?.video?.uri
DownloadLink(op) ==
    CASE op.shape = "uri"      -> op.uri
      [] op.shape = "emptyUri" -> ""
      [] OTHER                 -> Undefined

\* variant: only an absent link is rejected, an empty one is returned
LinkMissing_OnlyUndefined(downloadLink) == downloadLink = Undefined

\* geminiService.ts:178  if (!downloadLink)
LinkMissing(downloadLink) == Falsy(downloadLink)

\* geminiService.ts:229  `data:${keyframeMimeType};base64,${keyframeBase64}`
KeyframeUrl(mimeType, base64) == <<"data:", mimeType, ";base64,", base64>>

\* variant: the catch block rethrows what it caught
CatchAndRethrow_Inner(cause) == cause

\* geminiService.ts:233-236  the message of the error the catch block throws
CatchAndRethrow(cause) == PipelineFailedMsg


\* ------------------------------------------------ responses of the remote
\* text model answering getVideoGenerationPrompts: the call rejects, the text
\* is no JSON, the JSON is null, or it is an object whose fields the model chose
PromptsResponses ==
    [status : {"reject", "unparsable", "null"},
     videoPrompt : {Undefined}, keyframeEditPrompt : {Undefined}]
    \cup
    [status : {"object"},
     videoPrompt : {Undefined, "", "a video prompt"},
     keyframeEditPrompt : {Undefined, "", "an edit prompt"}]

\* image-edit model: parts in order, each carrying inlineData.data or none
EditResponses ==
    [status : {"reject", "noCandidates"}, parts : {<<>>}]
    \cup
    [status : {"ok"}, parts : SeqsUpTo({Undefined, "edited-1", "edited-2"}, MaxParts)]

\* text model answering the free-text image-prompt request
ImagePromptResponses ==
    [status : {"reject", "noText"}, text : {<<>>}]
    \cup
    [status : {"ok"}, text : {<<"p">>, <<" ", "p", " ">>}]

\* image-synthesis model: generatedImages missing, or a list of image bytes
ImagenResponses ==
    [status : {"reject", "noList"}, generatedImages : {<<>>}]
    \cup
    [status : {"ok"}, generatedImages : {<<>>, <<"png-1">>}]

\* a video operation as generateVideos / getVideosOperation return it
Operations ==
    [done : BOOLEAN, shape : {"noResponse", "noVideos", "emptyUri", "uri"},
     uri : {"https://video/1"}]

NoOperation == [done |-> FALSE, shape |-> "noResponse", uri |-> Undefined]

FetchResponses == {"reject", "notOk", "blobFails", "ok"}

\* what one invocation of the progress callback can do
CallbackResults(cbThrows) == IF cbThrows THEN {"returns", "throws"} ELSE {"returns"}

\* ---------------------------------------------- generateVideoFromScript
Arg == args[1]

\* geminiService.ts:233-236: any throw inside the try block ends the run here;
\* log is the run's event log at that moment
Throws(cause, log) ==
    /\ pc' = "settled"
    /\ outcome' = Rejected(CatchAndRethrow(cause))
    /\ logged' = Append(logged, cause)
    /\ events' = log

Fails(cause, evs) == Throws(cause, events \o evs)

\* variant: the job is submitted before "generating video" is reported
ToVideoSubmission_CallFirst(evs, prompt, base64, mimeType, cbThrows) ==
    \E cb \in CallbackResults(cbThrows) :
        IF cb = "throws"
        THEN /\ Fails(CallbackError, evs \o <<ProgressEv(MsgGeneratingVideo)>>)
             /\ UNCHANGED loadingMessage
        ELSE /\ pc' = "submit"
             /\ events' = events \o evs \o
                    << CallEv("generateVideos",
                              [prompt |-> prompt, imageBytes |-> base64,
                               mimeType |-> mimeType, numberOfVideos |-> 1]),
                       ProgressEv(MsgGeneratingVideo) >>
             /\ loadingMessage' = MsgGeneratingVideo
             /\ UNCHANGED <<outcome, logged>>

\* geminiService.ts:218-219 and 160-170: report "generating video", submit the job
ToVideoSubmission(evs, prompt, base64, mimeType, cbThrows) ==
    \E cb \in CallbackResults(cbThrows) :
        IF cb = "throws"
        THEN /\ Fails(CallbackError, evs \o <<ProgressEv(MsgGeneratingVideo)>>)
             /\ UNCHANGED loadingMessage
        ELSE /\ pc' = "submit"
             /\ events' = events \o evs \o
                    << ProgressEv(MsgGeneratingVideo),
                       CallEv("generateVideos",
                              [prompt |-> prompt, imageBytes |-> base64,
                               mimeType |-> mimeType, numberOfVideos |-> 1]) >>
             /\ loadingMessage' = MsgGeneratingVideo
             /\ UNCHANGED <<outcome, logged>>

\* geminiService.ts:189-199 / 207-209 and 126-135: the call, up to its first await
StartRun(script, input, cbThrows) ==
    /\ args' = <<[script |-> script, userInput |-> input, cbThrows |-> cbThrows]>>
    /\ keyframeBase64' = Undefined
    /\ videoPrompt' = Undefined
    /\ operation' = NoOperation
    /\ pollCount' = 0
    /\ received' = <<>>
    /\ \E cb \in CallbackResults(cbThrows) :
        IF TakesEditPath(input)
        THEN /\ keyframeMimeType' = InspirationMimeType(inspirationImage(input))
             /\ IF cb = "throws"
                THEN /\ pc' = "settled"
                     /\ outcome' = Rejected(CatchAndRethrow(CallbackError))
                     /\ logged' = <<CallbackError>>
                     /\ events' = <<ProgressEv(MsgDevelopingPrompts)>>
                     /\ UNCHANGED loadingMessage
                ELSE /\ pc' = "prompts_edit"
                     /\ events' = << ProgressEv(MsgDevelopingPrompts),
                                     CallEv("derivePrompts",
                                            [needsEditPrompt |-> TRUE,
                                             schema |-> PromptsSchema(TRUE)]) >>
                     /\ loadingMessage' = MsgDevelopingPrompts
                     /\ outcome' = Pending
                     /\ logged' = <<>>
        ELSE /\ keyframeMimeType' = Undefined
             /\ IF cb = "throws"
                THEN /\ pc' = "settled"
                     /\ outcome' = Rejected(CatchAndRethrow(CallbackError))
                     /\ logged' = <<CallbackError>>
                     /\ events' = <<ProgressEv(MsgGeneratingKeyframe)>>
                     /\ UNCHANGED loadingMessage
                ELSE /\ pc' = "image_prompt"
                     /\ events' = << ProgressEv(MsgGeneratingKeyframe),
                                     CallEv("imagePrompt",
                                            [aspectRatio |-> input.aspectRatio]) >>
                     /\ loadingMessage' = MsgGeneratingKeyframe
                     /\ outcome' = Pending
                     /\ logged' = <<>>

\* geminiService.ts:199-206 (with 100): the edit branch after the prompts arrive
PromptsEditResponse ==
    /\ pc = "prompts_edit"
    /\ UNCHANGED <<args, keyframeBase64, keyframeMimeType, operation, pollCount>>
    /\ UNCHANGED <<sgVars, appVars>>
    /\ \E r \in PromptsResponses, cb \in CallbackResults(Arg.cbThrows) :
        /\ received' = Response("derivePrompts", r)
        /\
          CASE r.status = "reject" ->
                Fails(TransportError, <<>>) /\ UNCHANGED <<videoPrompt, loadingMessage>>
          [] r.status = "unparsable" ->
                Fails(JsonSyntaxError, <<>>) /\ UNCHANGED <<videoPrompt, loadingMessage>>
          [] r.status = "null" ->
                Fails(TypeErrorMsg, <<>>) /\ UNCHANGED <<videoPrompt, loadingMessage>>
          [] OTHER ->
                /\ videoPrompt' = r.videoPrompt
                /\ IF cb = "throws"
                   THEN /\ Fails(CallbackError, <<ProgressEv(MsgEditingImage)>>)
                        /\ UNCHANGED loadingMessage
                   ELSE /\ loadingMessage' = MsgEditingImage
                        /\ IF EditPromptMissing(r.keyframeEditPrompt)
                           THEN Fails(EditPromptMissingMsg, <<ProgressEv(MsgEditingImage)>>)
                           ELSE /\ pc' = "image_edit"
                                /\ events' = events \o
                                     << ProgressEv(MsgEditingImage),
                                        CallEv("imageEdit",
                                               [data |-> inspirationImage(Arg.userInput).base64,
                                                mimeType |-> inspirationImage(Arg.userInput).mimeType,
                                                editPrompt |-> r.keyframeEditPrompt]) >>
                                /\ UNCHANGED <<outcome, logged>>

\* variant: an edit response without an image falls back to image synthesis
EditResponse_FallsBack ==
    /\ pc = "image_edit"
    /\ UNCHANGED <<args, keyframeMimeType, videoPrompt, operation, pollCount>>
    /\ UNCHANGED <<sgVars, appVars>>
    /\ \E r \in EditResponses :
        /\ received' = Response("imageEdit", r)
        /\
          CASE r.status = "reject" ->
                Fails(TransportError, <<>>) /\ UNCHANGED <<keyframeBase64, loadingMessage>>
          [] r.status = "noCandidates" ->
                Fails(TypeErrorMsg, <<>>) /\ UNCHANGED <<keyframeBase64, loadingMessage>>
          [] OTHER ->
                IF FirstInlineData(r.parts) = <<>>
                THEN /\ pc' = "image_prompt"
                     /\ events' = Append(events,
                            CallEv("imagePrompt", [aspectRatio |-> Arg.userInput.aspectRatio]))
                     /\ UNCHANGED <<keyframeBase64, loadingMessage, outcome, logged>>
                ELSE /\ keyframeBase64' = FirstInlineData(r.parts)[1]
                     /\ ToVideoSubmission(<<>>, videoPrompt, keyframeBase64',
                                          keyframeMimeType, Arg.cbThrows)

\* geminiService.ts:117-122 and 206, 218-219: the edited image arrives
EditResponse ==
    /\ pc = "image_edit"
    /\ UNCHANGED <<args, keyframeMimeType, videoPrompt, operation, pollCount>>
    /\ UNCHANGED <<sgVars, appVars>>
    /\ \E r \in EditResponses :
        /\ received' = Response("imageEdit", r)
        /\
          CASE r.status = "reject" ->
                Fails(TransportError, <<>>) /\ UNCHANGED <<keyframeBase64, loadingMessage>>
          [] r.status = "noCandidates" ->
                Fails(TypeErrorMsg, <<>>) /\ UNCHANGED <<keyframeBase64, loadingMessage>>
          [] OTHER ->
                IF FirstInlineData(r.parts) = <<>>
                THEN Fails(NoEditImageMsg, <<>>) /\ UNCHANGED <<keyframeBase64, loadingMessage>>
                ELSE /\ keyframeBase64' = FirstInlineData(r.parts)[1]
                     /\ ToVideoSubmission(<<>>, videoPrompt, keyframeBase64',
                                          keyframeMimeType, Arg.cbThrows)


\* geminiService.ts:136-149: the image prompt arrives; validate the aspect
\* ratio and ask for the image
ImagePromptResponse ==
    /\ pc = "image_prompt"
    /\ UNCHANGED <<args, keyframeBase64, keyframeMimeType, videoPrompt, operation,
                   pollCount, loadingMessage>>
    /\ UNCHANGED <<sgVars, appVars>>
    /\ \E r \in ImagePromptResponses :
        /\ received' = Response("imagePrompt", r)
        /\
          CASE r.status = "reject" -> Fails(TransportError, <<>>)
          [] r.status = "noText" -> Fails(TypeErrorMsg, <<>>)
          [] OTHER ->
                /\ pc' = "imagen"
                /\ events' = Append(events,
                       CallEv("generateImages",
                              [prompt |-> Trim(r.text),
                               numberOfImages |-> 1,
                               outputMimeType |-> "image/png",
                               aspectRatio |-> ValidatedAspectRatio(Arg.userInput.aspectRatio)]))
                /\ UNCHANGED <<outcome, logged>>

\* variant: an empty image list is not rejected and the run goes on without a keyframe
ImagenResponse_NoCheck ==
    /\ pc = "imagen"
    /\ UNCHANGED <<args, videoPrompt, operation, pollCount>>
    /\ UNCHANGED <<sgVars, appVars>>
    /\ \E r \in ImagenResponses, cb \in CallbackResults(Arg.cbThrows) :
        /\ received' = Response("generateImages", r)
        /\
          CASE r.status = "reject" ->
                /\ Fails(TransportError, <<>>)
                /\ UNCHANGED <<keyframeBase64, keyframeMimeType, loadingMessage>>
          [] r.status = "noList" ->
                /\ Fails(NoImagenImageMsg, <<>>)
                /\ UNCHANGED <<keyframeBase64, keyframeMimeType, loadingMessage>>
          [] OTHER ->
                /\ keyframeBase64' = IF Len(r.generatedImages) = 0 THEN Undefined
                                                                   ELSE r.generatedImages[1]
                /\ keyframeMimeType' = "image/png"
                /\ IF cb = "throws"
                   THEN /\ Fails(CallbackError, <<ProgressEv(MsgDevelopingVideoPrompt)>>)
                        /\ UNCHANGED loadingMessage
                   ELSE /\ pc' = "prompts_synth"
                        /\ events' = events \o
                             << ProgressEv(MsgDevelopingVideoPrompt),
                                CallEv("derivePrompts",
                                       [needsEditPrompt |-> FALSE,
                                        schema |-> PromptsSchema(FALSE)]) >>
                        /\ loadingMessage' = MsgDevelopingVideoPrompt
                        /\ UNCHANGED <<outcome, logged>>

\* geminiService.ts:151-156 and 209-214: the image arrives; ask for the video prompt
ImagenResponse ==
    /\ pc = "imagen"
    /\ UNCHANGED <<args, videoPrompt, operation, pollCount>>
    /\ UNCHANGED <<sgVars, appVars>>
    /\ \E r \in ImagenResponses, cb \in CallbackResults(Arg.cbThrows) :
        /\ received' = Response("generateImages", r)
        /\
          CASE r.status = "reject" ->
                /\ Fails(TransportError, <<>>)
                /\ UNCHANGED <<keyframeBase64, keyframeMimeType, loadingMessage>>
          [] r.status = "noList" \/ (r.status = "ok" /\ Len(r.generatedImages) = 0) ->
                /\ Fails(NoImagenImageMsg, <<>>)
                /\ UNCHANGED <<keyframeBase64, keyframeMimeType, loadingMessage>>
          [] OTHER ->
                /\ keyframeBase64' = r.generatedImages[1]
                /\ keyframeMimeType' = "image/png"
                /\ IF cb = "throws"
                   THEN /\ Fails(CallbackError, <<ProgressEv(MsgDevelopingVideoPrompt)>>)
                        /\ UNCHANGED loadingMessage
                   ELSE /\ pc' = "prompts_synth"
                        /\ events' = events \o
                             << ProgressEv(MsgDevelopingVideoPrompt),
                                CallEv("derivePrompts",
                                       [needsEditPrompt |-> FALSE,
                                        schema |-> PromptsSchema(FALSE)]) >>
                        /\ loadingMessage' = MsgDevelopingVideoPrompt
                        /\ UNCHANGED <<outcome, logged>>

\* geminiService.ts:214-219 (with 100): the synthesis branch after the prompts arrive
PromptsSynthResponse ==
    /\ pc = "prompts_synth"
    /\ UNCHANGED <<args, keyframeBase64, keyframeMimeType, operation, pollCount>>
    /\ UNCHANGED <<sgVars, appVars>>
    /\ \E r \in PromptsResponses :
        /\ received' = Response("derivePrompts", r)
        /\
          CASE r.status = "reject" ->
                Fails(TransportError, <<>>) /\ UNCHANGED <<videoPrompt, loadingMessage>>
          [] r.status = "unparsable" ->
                Fails(JsonSyntaxError, <<>>) /\ UNCHANGED <<videoPrompt, loadingMessage>>
          [] r.status = "null" ->
                Fails(TypeErrorMsg, <<>>) /\ UNCHANGED <<videoPrompt, loadingMessage>>
          [] OTHER ->
                /\ videoPrompt' = r.videoPrompt
                /\ ToVideoSubmission(<<>>, videoPrompt', keyframeBase64,
                                     keyframeMimeType, Arg.cbThrows)

\* geminiService.ts:172-181 and 221-222: one evaluation of the loop condition
\* on a freshly received operation, and what follows when the loop is left
AfterOperation(op) ==
    /\ operation' = op
    /\ IF LoopContinues(op)
       THEN /\ pc' = "poll_wait"
            /\ UNCHANGED <<events, outcome, logged, loadingMessage>>
       ELSE IF LinkMissing(DownloadLink(op))
            THEN Fails(NoDownloadLinkMsg, <<>>) /\ UNCHANGED loadingMessage
            ELSE \E cb \in CallbackResults(Arg.cbThrows) :
                    IF cb = "throws"
                    THEN /\ Fails(CallbackError, <<ProgressEv(MsgDownloading)>>)
                         /\ UNCHANGED loadingMessage
                    ELSE /\ pc' = "download"
                         /\ events' = events \o
                              << ProgressEv(MsgDownloading),
                                 CallEv("fetch", [url |-> DownloadLink(op)]) >>
                         /\ loadingMessage' = MsgDownloading
                         /\ UNCHANGED <<outcome, logged>>

\* geminiService.ts:160-172: the submission returns the operation handle
SubmitResponse ==
    /\ pc = "submit"
    /\ UNCHANGED <<args, keyframeBase64, keyframeMimeType, videoPrompt, pollCount>>
    /\ UNCHANGED <<sgVars, appVars>>
    /\ \/ /\ received' = Response("generateVideos", [status |-> "reject", op |-> NoOperation])
          /\ Fails(TransportError, <<>>)
          /\ UNCHANGED <<operation, loadingMessage>>
       \/ \E op \in Operations :
            /\ received' = Response("generateVideos", [status |-> "ok", op |-> op])
            /\ AfterOperation(op)

\* geminiService.ts:173-174: the 10 s timer fires and the status is re-fetched
PollTimer ==
    /\ pc = "poll_wait"
    /\ pc' = "poll"
    /\ pollCount' = IF pollCount < MaxPolls THEN pollCount + 1 ELSE MaxPolls
    /\ events' = IF pollCount < MaxPolls
                 THEN Append(events, CallEv("getVideosOperation", [poll |-> pollCount + 1]))
                 ELSE events
    /\ UNCHANGED <<args, keyframeBase64, keyframeMimeType, videoPrompt, operation,
                   outcome, logged, received, loadingMessage>>
    /\ UNCHANGED <<sgVars, appVars>>

\* geminiService.ts:174-181: the refreshed operation arrives
PollResponse ==
    /\ pc = "poll"
    /\ UNCHANGED <<args, keyframeBase64, keyframeMimeType, videoPrompt, pollCount>>
    /\ UNCHANGED <<sgVars, appVars>>
    /\ \/ /\ received' = Response("getVideosOperation", [status |-> "reject", op |-> NoOperation])
          /\ Fails(TransportError, <<>>)
          /\ UNCHANGED <<operation, loadingMessage>>
       \/ \E op \in Operations :
            /\ received' = Response("getVideosOperation", [status |-> "ok", op |-> op])
            /\ AfterOperation(op)

\* variant: a download that is not ok is fetched once more
FetchResponse_Retries ==
    /\ pc = "download"
    /\ UNCHANGED <<args, keyframeBase64, keyframeMimeType, videoPrompt, operation,
                   pollCount, loadingMessage>>
    /\ UNCHANGED <<sgVars, appVars>>
    /\ \E r \in FetchResponses :
        /\ received' = Response("fetch", [status |-> r])
        /\
          CASE r = "reject"    -> Fails(TransportError, <<>>)
          [] r = "notOk"     ->
                IF Cardinality(CallsOf("fetch")) < 2
                THEN /\ pc' = "download"
                     /\ events' = Append(events,
                            CallEv("fetch", [url |-> DownloadLink(operation)]))
                     /\ UNCHANGED <<outcome, logged>>
                ELSE Fails(DownloadFailedMsg, <<>>)
          [] r = "blobFails" -> Fails(TransportError, <<>>)
          [] OTHER ->
                /\ pc' = "settled"
                /\ outcome' = Resolved("blob:video",
                                       KeyframeUrl(keyframeMimeType, keyframeBase64))
                /\ UNCHANGED <<events, logged>>

\* geminiService.ts:222-231: the download answers; assemble the result
FetchResponse ==
    /\ pc = "download"
    /\ UNCHANGED <<args, keyframeBase64, keyframeMimeType, videoPrompt, operation,
                   pollCount, loadingMessage>>
    /\ UNCHANGED <<sgVars, appVars>>
    /\ \E r \in FetchResponses :
        /\ received' = Response("fetch", [status |-> r])
        /\
          CASE r = "reject"    -> Fails(TransportError, <<>>)
          [] r = "notOk"     -> Fails(DownloadFailedMsg, <<>>)
          [] r = "blobFails" -> Fails(TransportError, <<>>)
          [] OTHER ->
                /\ pc' = "settled"
                /\ outcome' = Resolved("blob:video",
                                       KeyframeUrl(keyframeMimeType, keyframeBase64))
                /\ UNCHANGED <<events, logged>>


\* ------------------------------------------------------- generateScripts
NoInspirationLine == <<"No specific visual or video inspiration provided.">>

\* geminiService.ts:11-12  `- Image "${name}": ${description}` per file
InspirationLines(kind, files) ==
    [i \in DOMAIN files |-> <<kind, files[i].name, files[i].description>>]

\* variant: the encoded audio is attached to the request
ScriptsPrompt_WithAudioBytes(input) ==
    LET inspirationText == InspirationLines("Image", input.inspirationImages)
                           \o InspirationLines("Video", input.inspirationVideos)
    IN  [ idea        |-> input.idea,
          aspectRatio |-> input.aspectRatio,
          inspiration |-> IF inspirationText # <<>> THEN inspirationText
                                                   ELSE <<NoInspirationLine>>,
          audio       |-> IF input.inspirationAudio # NoAudio
                          THEN <<input.inspirationAudio[1].name,
                                 input.inspirationAudio[1].base64>>
                          ELSE <<>> ]

\* geminiService.ts:11-36: the prompt, as the parts of it that vary with the
\* brief (mood, audience and duration are copied in verbatim like the idea)
ScriptsPrompt(input) ==
    LET inspirationText == InspirationLines("Image", input.inspirationImages)
                           \o InspirationLines("Video", input.inspirationVideos)
    IN  [ idea        |-> input.idea,
          aspectRatio |-> input.aspectRatio,
          inspiration |-> IF inspirationText # <<>> THEN inspirationText
                                                   ELSE <<NoInspirationLine>>,
          audio       |-> IF input.inspirationAudio # NoAudio
                          THEN <<input.inspirationAudio[1].name>> ELSE <<>> ]

MaxScripts == 2     \* longest scripts array a response carries

\* a candidate that the response schema allows (title is a string) or that
\* violates it (fullScript is missing)
BlankScript == [title |-> "", logline |-> "L3", fullScript |-> Undefined]

Candidates == {Script1, BlankScript}

\* text model answering generateScripts: the call rejects, the text is no
\* JSON, the JSON is null, an object without scripts, or one with an array
ScriptsResponses ==
    [status : {"reject", "unparsable", "null", "noScripts"}, scripts : {<<>>}]
    \cup
    [status : {"object"}, scripts : SeqsUpTo(Candidates, MaxScripts)]

SgNone    == [kind |-> "none",    message |-> "", scripts |-> <<>>]
SgPending == [kind |-> "pending", message |-> "", scripts |-> <<>>]

\* geminiService.ts:65-70: what generateScripts does with the response
GenerateScriptsResult(r) ==
    CASE r.status \in {"reject", "unparsable", "null"} ->
            [kind |-> "rejected", message |-> ScriptsFailedMsg, scripts |-> <<>>]
      [] r.status = "noScripts" ->
            [kind |-> "resolved", message |-> "", scripts |-> <<>>]
      [] OTHER ->
            [kind |-> "resolved", message |-> "", scripts |-> r.scripts]

\* geminiService.ts:10-63: the call, up to its await
StartGenerateScripts(input) ==
    /\ sgPc' = "await"
    /\ sgArgs' = <<input>>
    /\ sgRequest' = <<ScriptsPrompt(input)>>
    /\ sgOutcome' = SgPending
    /\ sgReceived' = <<>>

\* geminiService.ts:65-70
ScriptsResponse ==
    /\ sgPc = "await"
    /\ \E r \in ScriptsResponses :
        /\ sgReceived' = <<r>>
        /\ sgOutcome' = GenerateScriptsResult(r)
    /\ sgPc' = "settled"
    /\ UNCHANGED <<sgArgs, sgRequest, pipeVars, appVars, loadingMessage>>

\* ------------------------------------------------------------ initial state
StageIDEA == "IDEA"
StageINSPIRATION == "INSPIRATION"
StageFINETUNING == "FINETUNING"
StageSCRIPT_SELECT == "SCRIPT_SELECT"
StageGENERATING_VIDEO == "GENERATING_VIDEO"
StageRESULT == "RESULT"

\* constants.ts:3-12
INITIAL_USER_INPUT ==
    [ idea |-> "", inspirationImages |-> <<>>, inspirationVideos |-> <<>>,
      inspirationAudio |-> NoAudio, aspectRatio |-> "9:16" ]

\* null of a useState cell holding a string
Null == Undefined

Init ==
    /\ pc = "idle"
    /\ args = <<>>
    /\ keyframeBase64 = Undefined
    /\ keyframeMimeType = Undefined
    /\ videoPrompt = Undefined
    /\ operation = NoOperation
    /\ pollCount = 0
    /\ events = <<>>
    /\ logged = <<>>
    /\ outcome = NoOutcome
    /\ received = <<>>
    /\ sgPc = "idle"
    /\ sgArgs = <<>>
    /\ sgRequest = <<>>
    /\ sgOutcome = SgNone
    /\ sgReceived = <<>>
    /\ stage = StageIDEA
    /\ userInput = INITIAL_USER_INPUT
    /\ error = Null
    /\ isLoading = FALSE
    /\ scripts = <<>>
    /\ selectedScript = <<>>
    /\ loadingMessage = ""
    /\ finalVideoUrl = Null
    /\ finalKeyframeUrl = <<>>
    /\ interval = FALSE
    /\ messageIndex = 0

\* ------------------------------------------- the service called directly
\* a caller of the exported generateVideoFromScript, with any brief, any
\* script and any progress callback
CallGenerateVideoFromScript ==
    /\ pc = "idle" /\ sgPc = "idle"
    /\ \E script \in ServiceScripts, input \in ServiceInputs, cbThrows \in BOOLEAN :
            StartRun(script, input, cbThrows)
    /\ UNCHANGED <<sgVars, appVars>>

\* a caller of the exported generateScripts, with any brief
CallGenerateScripts ==
    /\ pc = "idle" /\ sgPc = "idle"
    /\ \E input \in ServiceInputs : StartGenerateScripts(input)
    /\ UNCHANGED <<pipeVars, appVars, loadingMessage>>

PipelineStep ==
    \/ PromptsEditResponse
    \/ EditResponse
    \/ ImagePromptResponse
    \/ ImagenResponse
    \/ PromptsSynthResponse
    \/ SubmitResponse
    \/ PollTimer
    \/ PollResponse
    \/ FetchResponse

Next ==
    \/ CallGenerateVideoFromScript
    \/ CallGenerateScripts
    \/ PipelineStep
    \/ ScriptsResponse

Spec == Init /\ [][Next]_vars


\* ------------------------------------------------------- the App component
\* files the user picks in the upload dialog (accept="image/*,video/*")
UploadableFiles == {PngFile, Mp4File}

\* options of the aspect-ratio select that the user is taken to pick
\* (a subset of the five options of constants.ts:234-238)
AspectChoices == {"9:16", "16:9"}

IdeaTexts == {"", "a robot chef"}

\* a settled promise resumes its awaiting handler in a microtask, before any
\* other event: no user event is handled in between
NoMicrotaskPending == pc # "settled" /\ sgPc # "settled"

\* constants.ts:67-69 and 184: typing into the idea field
handleInputChangeIdea ==
    /\ stage = StageIDEA /\ NoMicrotaskPending
    /\ \E v \in IdeaTexts : v # userInput.idea /\ userInput' = [userInput EXCEPT !.idea = v]
    /\ UNCHANGED <<stage, error, isLoading, scripts, selectedScript, finalVideoUrl,
                   finalKeyframeUrl, effectVars, loadingMessage, pipeVars, sgVars>>

\* constants.ts:185: Next, disabled while the idea is blank
NextToInspiration ==
    /\ stage = StageIDEA /\ NoMicrotaskPending
    /\ userInput.idea # ""
    /\ stage' = StageINSPIRATION
    /\ UNCHANGED <<userInput, error, isLoading, scripts, selectedScript, finalVideoUrl,
                   finalKeyframeUrl, effectVars, loadingMessage, pipeVars, sgVars>>

\* constants.ts:195: the type the upload input passes to the handler
UploadType(accept) == IF "image" \in accept THEN "image" ELSE "video"

\* the user is taken to pick each file of the dialog at most once
Uploaded(file) ==
    \/ \E i \in DOMAIN userInput.inspirationImages : userInput.inspirationImages[i] = file
    \/ \E i \in DOMAIN userInput.inspirationVideos : userInput.inspirationVideos[i] = file

\* constants.ts:71-88 and 195: one file is uploaded (the encoding await is
\* taken to complete before the next event)
handleInspirationFilesChange ==
    /\ stage = StageINSPIRATION /\ NoMicrotaskPending
    /\ \E file \in UploadableFiles :
        /\ ~Uploaded(file)
        /\ userInput' =
            IF UploadType({"image", "video"}) = "image"
            THEN [userInput EXCEPT !.inspirationImages = Append(@, file)]
            ELSE [userInput EXCEPT !.inspirationVideos = Append(@, file)]
    /\ UNCHANGED <<stage, error, isLoading, scripts, selectedScript, finalVideoUrl,
                   finalKeyframeUrl, effectVars, loadingMessage, pipeVars, sgVars>>

\* constants.ts:119-129
handleAudioChange ==
    /\ stage = StageINSPIRATION /\ NoMicrotaskPending
    /\ userInput.inspirationAudio = NoAudio
    /\ userInput' = [userInput EXCEPT !.inspirationAudio = <<AudioFile>>]
    /\ UNCHANGED <<stage, error, isLoading, scripts, selectedScript, finalVideoUrl,
                   finalKeyframeUrl, effectVars, loadingMessage, pipeVars, sgVars>>

\* constants.ts:221-222 and 247: the Back and Next buttons
Navigate ==
    /\ NoMicrotaskPending
    /\ \/ stage = StageINSPIRATION /\ stage' \in {StageIDEA, StageFINETUNING}
       \/ stage = StageFINETUNING /\ stage' = StageINSPIRATION
    /\ UNCHANGED <<userInput, error, isLoading, scripts, selectedScript, finalVideoUrl,
                   finalKeyframeUrl, effectVars, loadingMessage, pipeVars, sgVars>>

\* constants.ts:67-69 and 233-239: picking an aspect ratio
handleInputChangeAspectRatio ==
    /\ stage = StageFINETUNING /\ NoMicrotaskPending
    /\ \E v \in AspectChoices :
        v # userInput.aspectRatio /\ userInput' = [userInput EXCEPT !.aspectRatio = v]
    /\ UNCHANGED <<stage, error, isLoading, scripts, selectedScript, finalVideoUrl,
                   finalKeyframeUrl, effectVars, loadingMessage, pipeVars, sgVars>>

\* variant: the empty result is not told apart
NoneGenerated_Never(generatedScripts) == FALSE

\* constants.ts:136  if (generatedScripts.length === 0)
NoneGenerated(generatedScripts) == Len(generatedScripts) = 0

\* constants.ts:131-135 and 248: Generate Scripts (disabled while isLoading)
handleScriptGeneration ==
    /\ stage = StageFINETUNING /\ NoMicrotaskPending
    /\ ~isLoading
    /\ error' = Null
    /\ isLoading' = TRUE
    /\ StartGenerateScripts(userInput)
    /\ UNCHANGED <<stage, userInput, scripts, selectedScript, finalVideoUrl,
                   finalKeyframeUrl, effectVars, loadingMessage, pipeVars>>

\* constants.ts:135-146: handleScriptGeneration resumes with the result
ScriptGenerationResumes ==
    /\ sgPc = "settled"
    /\ sgPc' = "idle"
    /\ sgArgs' = <<>>
    /\ sgRequest' = <<>>
    /\ sgOutcome' = SgNone
    /\ sgReceived' = <<>>
    /\ IF sgOutcome.kind = "resolved"
       THEN IF NoneGenerated(sgOutcome.scripts)
            THEN /\ error' = NoScriptsMsg
                 /\ UNCHANGED <<scripts, stage>>
            ELSE /\ scripts' = sgOutcome.scripts
                 /\ stage' = StageSCRIPT_SELECT
                 /\ UNCHANGED error
       ELSE /\ error' = sgOutcome.message
            /\ UNCHANGED <<scripts, stage>>
    /\ isLoading' = FALSE
    /\ UNCHANGED <<userInput, selectedScript, finalVideoUrl,
                   finalKeyframeUrl, effectVars, loadingMessage, pipeVars>>

\* variant: the error of an earlier failure is not cleared when a run starts
handleVideoGeneration_KeepsError ==
    /\ stage = StageSCRIPT_SELECT /\ NoMicrotaskPending
    /\ \E i \in DOMAIN scripts :
        /\ selectedScript' = <<scripts[i]>>
        /\ StartRun(scripts[i], userInput, FALSE)
    /\ stage' = StageGENERATING_VIDEO
    /\ UNCHANGED <<error, userInput, isLoading, scripts, finalVideoUrl, finalKeyframeUrl,
                   effectVars, sgVars>>

\* variant: the stage is left on the script selection when a run starts
handleVideoGeneration_StaysOnSelect ==
    /\ stage = StageSCRIPT_SELECT /\ NoMicrotaskPending
    /\ \E i \in DOMAIN scripts :
        /\ selectedScript' = <<scripts[i]>>
        /\ StartRun(scripts[i], userInput, FALSE)
    /\ error' = Null
    /\ UNCHANGED <<stage, userInput, isLoading, scripts, finalVideoUrl, finalKeyframeUrl,
                   effectVars, sgVars>>

\* constants.ts:149-154 and 259: a script card is clicked
handleVideoGeneration ==
    /\ stage = StageSCRIPT_SELECT /\ NoMicrotaskPending
    /\ \E i \in DOMAIN scripts :
        /\ selectedScript' = <<scripts[i]>>
        /\ StartRun(scripts[i], userInput, FALSE)
    /\ error' = Null
    /\ stage' = StageGENERATING_VIDEO
    /\ UNCHANGED <<userInput, isLoading, scripts, finalVideoUrl, finalKeyframeUrl,
                   effectVars, sgVars>>

\* variant: a failed run is started again with the same script
VideoGenerationResumes_Restarts ==
    /\ pc = "settled"
    /\ IF outcome.kind = "resolved"
       THEN /\ pc' = "idle"
            /\ args' = <<>>
            /\ keyframeBase64' = Undefined
            /\ keyframeMimeType' = Undefined
            /\ videoPrompt' = Undefined
            /\ operation' = NoOperation
            /\ pollCount' = 0
            /\ events' = <<>>
            /\ logged' = <<>>
            /\ outcome' = NoOutcome
            /\ received' = <<>>
            /\ finalVideoUrl' = outcome.videoUrl
            /\ finalKeyframeUrl' = outcome.keyframeUrl
            /\ stage' = StageRESULT
            /\ interval' = FALSE
            /\ messageIndex' = 0
            /\ UNCHANGED <<error, loadingMessage>>
       ELSE /\ error' = outcome.message
            /\ StartRun(Arg.script, Arg.userInput, FALSE)
            /\ UNCHANGED <<stage, finalVideoUrl, finalKeyframeUrl, effectVars>>
    /\ UNCHANGED <<userInput, isLoading, scripts, selectedScript, sgVars>>

\* constants.ts:154-161: handleVideoGeneration resumes with the result; the
\* stage change makes the loading-message effect clear its interval (64)
VideoGenerationResumes ==
    /\ pc = "settled"
    /\ pc' = "idle"
    /\ args' = <<>>
    /\ keyframeBase64' = Undefined
    /\ keyframeMimeType' = Undefined
    /\ videoPrompt' = Undefined
    /\ operation' = NoOperation
    /\ pollCount' = 0
    /\ events' = <<>>
    /\ logged' = <<>>
    /\ outcome' = NoOutcome
    /\ received' = <<>>
    /\ IF outcome.kind = "resolved"
       THEN /\ finalVideoUrl' = outcome.videoUrl
            /\ finalKeyframeUrl' = outcome.keyframeUrl
            /\ stage' = StageRESULT
            /\ UNCHANGED error
       ELSE /\ error' = outcome.message
            /\ stage' = StageSCRIPT_SELECT
            /\ UNCHANGED <<finalVideoUrl, finalKeyframeUrl>>
    /\ interval' = FALSE
    /\ messageIndex' = 0
    /\ UNCHANGED <<userInput, isLoading, scripts, selectedScript, loadingMessage, sgVars>>

\* constants.ts:314-323: Start a New Project
StartNewProject ==
    /\ stage = StageRESULT /\ NoMicrotaskPending
    /\ stage' = StageIDEA
    /\ userInput' = INITIAL_USER_INPUT
    /\ scripts' = <<>>
    /\ selectedScript' = <<>>
    /\ finalVideoUrl' = Null
    /\ finalKeyframeUrl' = <<>>
    /\ error' = Null
    /\ UNCHANGED <<isLoading, effectVars, loadingMessage, pipeVars, sgVars>>

\* constants.ts:14-25
VEO_GENERATION_MESSAGES ==
    << "Warming up the director's chair...",
       "Analyzing your creative vision...",
       "Breaking down your script into shots...",
       "Generating a keyframe to set the mood...",
       "Assembling the first scene...",
       "Rendering high-fidelity visuals...",
       "This can take a few minutes, the best art takes time.",
       "Applying cinematic color grading...",
       "Adding final touches to the masterpiece...",
       "Almost there, preparing the final cut..." >>

\* the render that follows a stage change has run its effect
EffectsFlushed == stage = StageGENERATING_VIDEO => interval

\* constants.ts:54-59: the effect of the render that shows the generating
\* screen; it runs after the handler that changed the stage has returned
LoadingMessageEffect ==
    /\ stage = StageGENERATING_VIDEO
    /\ ~interval
    /\ interval' = TRUE
    /\ messageIndex' = 0
    /\ loadingMessage' = VEO_GENERATION_MESSAGES[1]
    /\ UNCHANGED <<stage, userInput, error, isLoading, scripts, selectedScript,
                   finalVideoUrl, finalKeyframeUrl, pipeVars, sgVars>>

\* constants.ts:59-62: the 5 s interval fires
IntervalTick ==
    /\ stage = StageGENERATING_VIDEO
    /\ interval
    /\ NoMicrotaskPending
    /\ messageIndex < MaxTicks
    /\ messageIndex' = (messageIndex + 1) % Len(VEO_GENERATION_MESSAGES)
    /\ loadingMessage' = VEO_GENERATION_MESSAGES[messageIndex' + 1]
    /\ UNCHANGED <<stage, userInput, error, isLoading, scripts, selectedScript,
                   finalVideoUrl, finalKeyframeUrl, interval, pipeVars, sgVars>>

AppNext ==
    \/ handleInputChangeIdea
    \/ NextToInspiration
    \/ handleInspirationFilesChange
    \/ handleAudioChange
    \/ Navigate
    \/ handleInputChangeAspectRatio
    \/ handleScriptGeneration
    \/ ScriptsResponse
    \/ ScriptGenerationResumes
    \/ handleVideoGeneration
    \/ LoadingMessageEffect
    \/ IntervalTick
    \/ (EffectsFlushed /\ PipelineStep)
    \/ VideoGenerationResumes
    \/ StartNewProject

AppSpec == Init /\ [][AppNext]_vars


\* fairness of the event loop: a timer that was set fires
FairSpec == Spec /\ WF_vars(PollTimer)

\* ============================================================== properties
Input == Arg.userInput

EditPathTaken ==
    \E i \in DOMAIN events :
        /\ events[i].type = "call"
        /\ \/ events[i].api = "imageEdit"
           \/ events[i].api = "derivePrompts" /\ events[i].request.needsEditPrompt

SynthPathTaken ==
    \E i \in DOMAIN events :
        /\ events[i].type = "call"
        /\ \/ events[i].api \in {"imagePrompt", "generateImages"}
           \/ events[i].api = "derivePrompts" /\ ~events[i].request.needsEditPrompt

ReceivedFrom(api) == received # <<>> /\ received[1].api = api

FailureStatuses ==
    {"reject", "unparsable", "null", "noCandidates", "noText", "noList", "notOk", "blobFails"}

\* C1: a run takes the edit path (prompt derivation with needsEditPrompt = true,
\* then the image-edit call) exactly when inspirationImages is non-empty, and
\* the synthesis path exactly when it is empty, whatever inspirationVideos and
\* inspirationAudio hold.
C1_EditPathIffImages ==
    args # <<>> =>
        /\ EditPathTaken => Len(Input.inspirationImages) > 0
        /\ SynthPathTaken => Len(Input.inspirationImages) = 0
        /\ Len(events) >= 2 =>
              /\ EditPathTaken <=> Len(Input.inspirationImages) > 0
              /\ SynthPathTaken <=> Len(Input.inspirationImages) = 0
        /\ ~Arg.cbThrows => Len(events) >= 2
        /\ \A j \in CallsOf("imageEdit") :
              \E i \in CallsOf("derivePrompts") : i < j /\ events[i].request.needsEditPrompt

\* a brief with videos and audio but no image has reached image synthesis
C1_Witness ==
    /\ args # <<>>
    /\ Input.inspirationImages = <<>>
    /\ Input.inspirationVideos # <<>>
    /\ Input.inspirationAudio # NoAudio
    /\ Called("generateImages")

\* C2: whatever step fails, the caller observes one rejection whose message is
\* "Failed to generate the final video."; one cause is logged and no other
\* message escapes.
C2_SinglePipelineError ==
    /\ outcome.kind = "rejected" => outcome.message = PipelineFailedMsg
    /\ logged # <<>> =>
          /\ pc = "settled"
          /\ Len(logged) = 1
          /\ outcome = Rejected(PipelineFailedMsg)
    /\ pc = "settled" => outcome.kind \in {"resolved", "rejected"}
    /\ pc = "settled" /\ outcome.kind = "resolved" => logged = <<>>
    /\ received # <<>> /\ received[1].value.status \in FailureStatuses =>
          outcome = Rejected(PipelineFailedMsg)

\* the progress callback threw when the download was announced
C2_Witness ==
    /\ pc = "settled"
    /\ logged = <<CallbackError>>
    /\ Reported(MsgDownloading)
    /\ outcome.message = PipelineFailedMsg

\* C3: on the edit branch a derived-prompts object whose keyframeEditPrompt is
\* missing or empty fails the run: no image-edit call, no video submission, no
\* synthesis call, no keyframe; and image edit is only ever called with a
\* non-empty edit prompt.
C3_MissingEditPromptIsFatal ==
    /\ ( /\ ReceivedFrom("derivePrompts")
         /\ received[1].value.status = "object"
         /\ received[1].value.keyframeEditPrompt \in {Undefined, ""}
         /\ EditPathTaken )
       => /\ pc = "settled"
          /\ outcome = Rejected(PipelineFailedMsg)
          /\ ~Called("imageEdit") /\ ~Called("generateVideos")
          /\ ~Called("imagePrompt") /\ ~Called("generateImages")
          /\ keyframeBase64 = Undefined
    /\ \A i \in CallsOf("imageEdit") : events[i].request.editPrompt \notin {Undefined, ""}

\* the model answered with a video prompt and an empty edit prompt
C3_Witness ==
    /\ ReceivedFrom("derivePrompts")
    /\ received[1].value.status = "object"
    /\ received[1].value.videoPrompt = "a video prompt"
    /\ received[1].value.keyframeEditPrompt = ""
    /\ EditPathTaken
    /\ logged = <<EditPromptMissingMsg>>

\* the run has left generateVideo after the submission returned an operation
LeftPollLoop ==
    /\ Called("generateVideos")
    /\ operation # NoOperation
    /\ pc \in {"download", "settled"}

\* C4 as stated: generateVideo leaves its poll loop (terminates in any way)
\* only after observing an operation whose done flag is true.
C4_LeavesLoopOnlyWhenDone == LeftPollLoop => operation.done

\* C4 as amended: generateVideo returns a locator, or reports the missing link,
\* only after observing done = true; the one other way out of the loop is a
\* status poll that itself fails, which ends the run with the pipeline error.
C4_ReturnsOnlyWhenDone ==
    /\ pc = "download" => operation.done
    /\ Called("fetch") => operation.done
    /\ outcome.kind = "resolved" => operation.done
    /\ logged = <<NoDownloadLinkMsg>> => operation.done
    /\ LeftPollLoop /\ ~operation.done =>
          /\ received = Response("getVideosOperation",
                                 [status |-> "reject", op |-> NoOperation])
          /\ outcome = Rejected(PipelineFailedMsg)

\* an operation that is not done but already carries a link keeps the loop going
C4_Witness ==
    /\ pc = "poll_wait"
    /\ pollCount >= 1
    /\ ~operation.done
    /\ operation.shape = "uri"

\* C5: the loop has no iteration bound or timeout: once an operation reports
\* done, generateVideo has ended (locator or missing-link failure, or the run
\* failed); the loop is left only on a done operation or a failed poll; and
\* every wait is followed by another poll, however many polls came before.
C5_PollsUntilDone ==
    /\ [](operation.done => pc \in {"download", "settled"})
    /\ [][ (pc \in {"poll_wait", "poll"} /\ pc' \notin {"poll_wait", "poll"})
             => (received'[1].value.status = "reject" \/ received'[1].value.op.done) ]_vars
    /\ (pc = "poll_wait") ~> (pc = "poll")

\* the counter has saturated and the run is waiting for yet another poll
C5_Witness == pc = "poll_wait" /\ pollCount = MaxPolls /\ ~operation.done

\* C6: the aspect ratio passed to image synthesis is a member of the allow-list:
\* a member is passed unchanged, anything else becomes 16:9, and once the image
\* prompt has arrived the image is requested whatever the input value was.
C6_AspectRatioCoerced ==
    /\ \A i \in CallsOf("generateImages") :
          LET asked == Input.aspectRatio
              passed == events[i].request.aspectRatio
          IN  /\ passed \in {"1:1", "3:4", "4:3", "9:16", "16:9"}
              /\ asked \in {"1:1", "3:4", "4:3", "9:16", "16:9"} => passed = asked
              /\ asked \notin {"1:1", "3:4", "4:3", "9:16", "16:9"} => passed = "16:9"
    /\ ReceivedFrom("imagePrompt") /\ received[1].value.status = "ok" =>
          /\ pc = "imagen"
          /\ Called("generateImages")
          /\ logged = <<>>

\* scenario B: "7:3" was asked for and 16:9 was passed
C6_Witness ==
    /\ args # <<>>
    /\ Input.aspectRatio = "7:3"
    /\ Called("generateImages")
    /\ RequestOf("generateImages").aspectRatio = "16:9"

\* C7: the caller gets a keyframe only together with a video, after the video
\* operation completed with a link and the download succeeded; a failed run
\* exposes no keyframe even when one was already made; an image-edit response
\* without any inline image part fails the run before any video submission.
C7_NoPartialKeyframe ==
    /\ outcome.keyframeUrl # <<>> =>
          /\ outcome.kind = "resolved"
          /\ outcome.videoUrl \notin {Undefined, ""}
          /\ Called("generateVideos") /\ operation.done
          /\ received = Response("fetch", [status |-> "ok"])
    /\ logged # <<>> => outcome.kind = "rejected" /\ outcome.keyframeUrl = <<>>
    /\ ( /\ ReceivedFrom("imageEdit")
         /\ received[1].value.status = "ok"
         /\ \A k \in DOMAIN received[1].value.parts : received[1].value.parts[k] = Undefined )
       => /\ pc = "settled"
          /\ outcome = Rejected(PipelineFailedMsg)
          /\ ~Called("generateVideos")

\* scenario D: the edit response has parts, none of them an image
C7_Witness ==
    /\ ReceivedFrom("imageEdit")
    /\ received[1].value.status = "ok"
    /\ Len(received[1].value.parts) >= 1
    /\ \A k \in DOMAIN received[1].value.parts : received[1].value.parts[k] = Undefined
    /\ pc = "settled"

\* C8 as stated: the requested schema always requires videoPrompt, requires
\* keyframeEditPrompt exactly when needsEditPrompt is true, and does not
\* contain keyframeEditPrompt when needsEditPrompt is false.
C8_SchemaRequiresEditPrompt ==
    \A i \in CallsOf("derivePrompts") :
        LET q == events[i].request
        IN  /\ "videoPrompt" \in q.schema.required
            /\ q.needsEditPrompt <=> "keyframeEditPrompt" \in q.schema.required
            /\ ~q.needsEditPrompt => "keyframeEditPrompt" \notin q.schema.properties

\* C9 as stated: generateScripts fails or returns candidates whose title,
\* logline and fullScript are all present and non-empty.
C9_CandidatesComplete ==
    sgOutcome.kind = "resolved" =>
        \A i \in DOMAIN sgOutcome.scripts :
            /\ sgOutcome.scripts[i].title \notin {Undefined, ""}
            /\ sgOutcome.scripts[i].logline \notin {Undefined, ""}
            /\ sgOutcome.scripts[i].fullScript \notin {Undefined, ""}

EmptyArrayReceived ==
    sgReceived # <<>> /\ sgReceived[1].status = "object" /\ sgReceived[1].scripts = <<>>

\* C10: an empty scripts array makes generateScripts resolve with the empty
\* sequence; handleScriptGeneration then sets the "try adjusting your inputs"
\* message, leaves the stage where it is (never SCRIPT_SELECT), keeps scripts,
\* starts no pipeline run and clears isLoading.
C10_EmptyResultHandled ==
    /\ [](EmptyArrayReceived =>
            sgOutcome = [kind |-> "resolved", message |-> "", scripts |-> <<>>])
    /\ [][ (EmptyArrayReceived /\ sgPc = "settled" /\ sgPc' = "idle")
             => /\ error' = NoScriptsMsg
                /\ stage' = stage /\ stage' # StageSCRIPT_SELECT
                /\ scripts' = scripts
                /\ pc = "idle" /\ pc' = "idle"
                /\ isLoading' = FALSE ]_vars

\* the message is shown on the fine-tuning screen and the button is free again
C10_Witness ==
    /\ stage = StageFINETUNING
    /\ error = NoScriptsMsg
    /\ ~isLoading
    /\ sgPc = "idle"

\* the response is not the JSON object the schema describes: no JSON at all,
\* null, an object without the scripts array, or a candidate lacking a field
SchemaViolating(r) ==
    \/ r.status \in {"unparsable", "null", "noScripts"}
    \/ /\ r.status = "object"
       /\ \E i \in DOMAIN r.scripts :
            \E f \in {"title", "logline", "fullScript"} : r.scripts[i][f] = Undefined

\* C11 as stated: a rejected call and every malformed or schema-violating
\* response make generateScripts fail with "Failed to generate scripts from the
\* idea."; none of them yields a successful (possibly empty) result.
C11_MalformedNeverSucceeds ==
    sgReceived # <<>> /\ (sgReceived[1].status = "reject" \/ SchemaViolating(sgReceived[1]))
        => sgOutcome = [kind |-> "rejected", message |-> ScriptsFailedMsg, scripts |-> <<>>]

\* C12: in every successful run the media type passed to video generation and
\* embedded in keyframeUrl is image/png on the synthesis path and the media
\* type of the first inspiration image on the edit path.
C12_KeyframeMediaType ==
    outcome.kind = "resolved" =>
        LET expected == IF Len(Input.inspirationImages) > 0
                        THEN Input.inspirationImages[1].mimeType
                        ELSE "image/png"
            submitted == RequestOf("generateVideos")
        IN  /\ Called("generateVideos")
            /\ submitted.mimeType = expected
            /\ outcome.keyframeUrl =
                   <<"data:", expected, ";base64,", submitted.imageBytes>>

\* scenario A: the first of two images is a JPEG and the run succeeded
C12_Witness ==
    /\ outcome.kind = "resolved"
    /\ Input.inspirationImages = <<JpegFile, PngFile>>
    /\ outcome.keyframeUrl[2] = "image/jpeg"

KeyframeCalls == CallsOf("imageEdit") \cup CallsOf("generateImages")

\* C13: no run calls both the image-edit and the image-synthesis capability,
\* each is called at most once, and a run that reaches video submission holds
\* a keyframe obtained from exactly one call to exactly one of them.
C13_OneKeyframeSource ==
    /\ ~(Called("imageEdit") /\ Called("generateImages"))
    /\ ~(Called("imageEdit") /\ Called("imagePrompt"))
    /\ Cardinality(CallsOf("imageEdit")) <= 1
    /\ Cardinality(CallsOf("generateImages")) <= 1
    /\ Called("generateVideos") =>
          /\ Cardinality(KeyframeCalls) = 1
          /\ \A i \in KeyframeCalls, j \in CallsOf("generateVideos") : i < j
          /\ keyframeBase64 \notin {Undefined, ""}
          /\ RequestOf("generateVideos").imageBytes = keyframeBase64
          /\ keyframeBase64 \in
                IF Called("imageEdit") THEN {"edited-1", "edited-2"} ELSE {"png-1"}

\* a run on the edit path has submitted its video with the one edited image
C13_Witness ==
    /\ Called("generateVideos")
    /\ Called("imageEdit")
    /\ keyframeBase64 = "edited-2"
    /\ pc = "submit"

\* the kind of an event: the text of a progress report or the name of the
\* capability called
EventLabel(e) == IF e.type = "progress" THEN e.message ELSE e.api

Labels == [i \in DOMAIN events |-> EventLabel(events[i])]

IsNoStatusPoll(label) == label # "getVideosOperation"

IsPrefix(s, t) == Len(s) <= Len(t) /\ \A i \in DOMAIN s : s[i] = t[i]

LastLabel == IF events = <<>> THEN "" ELSE Labels[Len(events)]

\* status polls only occur after the submission and before the download is announced
PollsBetweenSubmitAndDownload ==
    \A i \in CallsOf("getVideosOperation") :
        /\ \E j \in CallsOf("generateVideos") : j < i
        /\ \A k \in DOMAIN events :
              Labels[k] \in {MsgDownloading, "fetch"} => i < k

\* while a call is awaited it is the last event, and a call that failed stays
\* the last event: nothing is reported or called before it returned successfully
NothingBeforeReturn ==
    /\ pc = "prompts_edit"  => LastLabel = "derivePrompts"
    /\ pc = "prompts_synth" => LastLabel = "derivePrompts"
    /\ pc = "image_edit"    => LastLabel = "imageEdit"
    /\ pc = "image_prompt"  => LastLabel = "imagePrompt"
    /\ pc = "imagen"        => LastLabel = "generateImages"
    /\ pc = "submit"        => LastLabel = "generateVideos"
    /\ pc = "poll"          => LastLabel = "getVideosOperation"
    /\ pc = "download"      => LastLabel = "fetch"
    /\ received # <<>> /\ received[1].value.status \in FailureStatuses =>
          /\ pc = "settled"
          /\ LastLabel = received[1].api

EditOrder ==
    << MsgDevelopingPrompts, "derivePrompts", MsgEditingImage, "imageEdit",
       MsgGeneratingVideo, "generateVideos", MsgDownloading, "fetch" >>

\* C14: on the edit branch the events of a run are, in this order: progress
\* "developing creative prompts", prompt derivation with needsEditPrompt = true,
\* progress "editing inspiration image", the image-edit call, progress
\* "generating video", the submission and its status polls, progress
\* "downloading", the download fetch; nothing follows a call that has not
\* returned successfully.
C14_EditBranchOrder ==
    args # <<>> /\ Len(Input.inspirationImages) > 0 =>
        /\ IsPrefix(SelectSeq(Labels, IsNoStatusPoll), EditOrder)
        /\ PollsBetweenSubmitAndDownload
        /\ \A i \in CallsOf("derivePrompts") : events[i].request.needsEditPrompt
        /\ NothingBeforeReturn
        /\ outcome.kind = "resolved" => SelectSeq(Labels, IsNoStatusPoll) = EditOrder

\* an edit-branch run was polled twice and has announced the download
C14_Witness ==
    /\ args # <<>> /\ Len(Input.inspirationImages) > 0
    /\ Cardinality(CallsOf("getVideosOperation")) = 2
    /\ pc = "download"
    /\ SelectSeq(Labels, IsNoStatusPoll) = EditOrder

SynthOrder ==
    << MsgGeneratingKeyframe, "imagePrompt", "generateImages",
       MsgDevelopingVideoPrompt, "derivePrompts",
       MsgGeneratingVideo, "generateVideos", MsgDownloading, "fetch" >>

\* C15: on the synthesis branch the events of a run are, in this order:
\* progress "generating keyframe", the free-text image-prompt call, the
\* image-synthesis call, progress "developing video prompt", prompt derivation
\* with needsEditPrompt = false, progress "generating video", the submission
\* and its status polls, progress "downloading", the download fetch; the video
\* prompt is derived only once the keyframe exists.
C15_SynthBranchOrder ==
    args # <<>> /\ Len(Input.inspirationImages) = 0 =>
        /\ IsPrefix(SelectSeq(Labels, IsNoStatusPoll), SynthOrder)
        /\ PollsBetweenSubmitAndDownload
        /\ \A i \in CallsOf("derivePrompts") : ~events[i].request.needsEditPrompt
        /\ NothingBeforeReturn
        /\ Called("derivePrompts") \/ Reported(MsgDevelopingVideoPrompt) =>
              /\ keyframeBase64 \notin {Undefined, ""}
              /\ keyframeMimeType = "image/png"
        /\ outcome.kind = "resolved" => SelectSeq(Labels, IsNoStatusPoll) = SynthOrder

\* the keyframe exists and the video prompt is being derived
C15_Witness ==
    /\ args # <<>> /\ Len(Input.inspirationImages) = 0
    /\ pc = "prompts_synth"
    /\ keyframeBase64 = "png-1"
    /\ Len(events) = 5

\* C16: once the operation is complete, generateVideo returns the URI of the
\* first generated video when it is present and non-empty, and the download is
\* fetched from it; without a response, without videos or with an empty URI the
\* run fails with "Video generation did not produce a download link." and the
\* download fetch is never issued.
C16_LinkOrNoFetch ==
    /\ operation.done /\ operation.shape = "uri" =>
          \/ /\ Called("fetch")
             /\ RequestOf("fetch").url = operation.uri
             /\ operation.uri \notin {Undefined, ""}
             /\ Reported(MsgDownloading)
          \/ /\ logged = <<CallbackError>>
             /\ LastLabel = MsgDownloading
    /\ operation.done /\ operation.shape \in {"noResponse", "noVideos", "emptyUri"} =>
          /\ pc = "settled"
          /\ logged = <<NoDownloadLinkMsg>>
          /\ outcome = Rejected(PipelineFailedMsg)
          /\ ~Called("fetch")
          /\ ~Reported(MsgDownloading)
    /\ Called("fetch") => operation.done /\ operation.shape = "uri"
    /\ Cardinality(CallsOf("fetch")) <= 1

\* scenario E: the operation completed with a video whose URI is empty
C16_Witness ==
    /\ operation.done
    /\ operation.shape = "emptyUri"
    /\ logged = <<NoDownloadLinkMsg>>
    /\ pollCount >= 1

\* the calls that make up the stages of a run (the status poll is not one)
StageCalls ==
    {"derivePrompts", "imageEdit", "imagePrompt", "generateImages", "generateVideos", "fetch"}

\* C17: no stage is retried: prompt derivation, image edit or synthesis, video
\* submission and the download fetch are each issued at most once per run; a
\* failed call is the last event of its run, which has ended; a run that has
\* ended makes no further call; only the status poll is repeated.
C17_NoRetry ==
    /\ [](\A api \in StageCalls : Cardinality(CallsOf(api)) <= 1)
    /\ [](received # <<>> /\ received[1].value.status \in FailureStatuses =>
            /\ pc = "settled"
            /\ outcome = Rejected(PipelineFailedMsg)
            /\ LastLabel = received[1].api)
    /\ [](logged # <<>> => pc = "settled")
    /\ [][pc = "settled" => pc' = "settled" /\ events' = events]_vars
    /\ [][Len(events') > Len(events) /\ pc # "idle" =>
             /\ received' # <<>>
             /\ received'[1].value.status \notin FailureStatuses]_vars

\* the status poll was issued twice, and the download then failed
C17_Witness ==
    /\ Cardinality(CallsOf("getVideosOperation")) = 2
    /\ received = Response("fetch", [status |-> "notOk"])
    /\ pc = "settled"
    /\ Cardinality(CallsOf("fetch")) = 1

\* C18 as stated: every video submission carries a present, non-empty video
\* prompt, and a derived-prompts object without videoPrompt never leads to a
\* video submission.
C18_VideoPromptPresent ==
    /\ \A i \in CallsOf("generateVideos") :
          events[i].request.prompt \notin {Undefined, ""}
    /\ ( /\ ReceivedFrom("derivePrompts")
         /\ received[1].value.status = "object"
         /\ received[1].value.videoPrompt = Undefined )
       => ~Called("generateVideos")

RunInFlight == pc # "idle"

\* C19: at most one run started by handleVideoGeneration is in flight: a run
\* starts only while the stage is SCRIPT_SELECT and no run is in flight, the
\* start moves the stage to GENERATING_VIDEO, the stage is GENERATING_VIDEO
\* exactly while the run is in flight, and it leaves GENERATING_VIDEO only in
\* the step in which handleVideoGeneration resumes with the finished run.
C19_OneRunInFlight ==
    /\ [](RunInFlight <=> stage = StageGENERATING_VIDEO)
    /\ [](stage = StageSCRIPT_SELECT => ~RunInFlight)
    /\ [][ (args' # args /\ args' # <<>>)
             => /\ stage = StageSCRIPT_SELECT
                /\ ~RunInFlight
                /\ stage' = StageGENERATING_VIDEO ]_vars
    /\ [][ (stage = StageGENERATING_VIDEO /\ stage' # StageGENERATING_VIDEO)
             => /\ pc = "settled"
                /\ outcome.kind \in {"resolved", "rejected"}
                /\ pc' = "idle"
                /\ stage' \in {StageRESULT, StageSCRIPT_SELECT} ]_vars

\* the run is waiting for a status poll while the generating screen is shown
C19_Witness ==
    /\ stage = StageGENERATING_VIDEO
    /\ pc = "poll_wait"
    /\ selectedScript # <<>>
    /\ args # <<>> /\ Arg.script = selectedScript[1]

\* C20: a failed run is terminal: when generateVideoFromScript has rejected,
\* the stage becomes SCRIPT_SELECT, the error is its message, the final video
\* and keyframe references stay as they were and no run is in flight; a run
\* starts only in a step that selects a script on the SCRIPT_SELECT screen.
C20_FailedRunIsTerminal ==
    /\ [][ (pc = "settled" /\ outcome.kind = "rejected" /\ pc' # "settled")
             => /\ stage' = StageSCRIPT_SELECT
                /\ error' = PipelineFailedMsg
                /\ finalVideoUrl' = finalVideoUrl
                /\ finalKeyframeUrl' = finalKeyframeUrl
                /\ pc' = "idle" /\ args' = <<>> /\ events' = <<>> ]_vars
    /\ [][ (pc = "idle" /\ pc' # "idle")
             => /\ stage = StageSCRIPT_SELECT
                /\ selectedScript' # <<>>
                /\ \E i \in DOMAIN scripts : selectedScript'[1] = scripts[i]
                /\ args'[1].script = selectedScript'[1]
                /\ error' = Null ]_vars
    /\ [](error = PipelineFailedMsg => stage = StageSCRIPT_SELECT /\ pc = "idle")

\* the user is back on the script selection with the error of a failed run
C20_Witness ==
    /\ stage = StageSCRIPT_SELECT
    /\ error = PipelineFailedMsg
    /\ pc = "idle"
    /\ selectedScript # <<>>
    /\ finalVideoUrl = Null

\* the brief with the encoded bytes of its audio replaced
WithAudioBytes(input, bytes) ==
    IF input.inspirationAudio = NoAudio THEN input
    ELSE [input EXCEPT !.inspirationAudio = <<[@[1] EXCEPT !.base64 = bytes]>>]

AudioBytes == {AudioFile.base64, AudioFileRemix.base64}

\* C21: the request generateScripts sends does not depend on the bytes of the
\* inspiration audio: the brief of the call, with any other audio bytes under
\* the same filename, produces the identical request, and of the audio only
\* the filename appears in it.
C21_RequestIgnoresAudioBytes ==
    sgArgs # <<>> =>
        /\ sgRequest # <<>>
        /\ \A bytes \in AudioBytes :
              ScriptsPrompt(WithAudioBytes(sgArgs[1], bytes)) = sgRequest[1]
        /\ sgRequest[1].audio =
              IF sgArgs[1].inspirationAudio = NoAudio THEN <<>>
              ELSE <<sgArgs[1].inspirationAudio[1].name>>
        /\ \A bytes \in AudioBytes : \A i \in DOMAIN sgRequest[1].audio :
              sgRequest[1].audio[i] # bytes

\* the request for a brief whose audio is the second recording has been sent
C21_Witness ==
    /\ sgArgs # <<>>
    /\ sgArgs[1].inspirationAudio = <<AudioFileRemix>>
    /\ sgRequest # <<>>
    /\ sgRequest[1].audio = <<"song.mp3">>

\* the encoded bytes of the images of the brief other than the first
OtherImageBytes ==
    {Input.inspirationImages[k].base64 : k \in 2..Len(Input.inspirationImages)}
        \ {Input.inspirationImages[1].base64}

\* C22: with several inspiration images the image-edit call receives the bytes
\* and media type of the first image; no other inspiration image is sent to
\* image edit or to any other capability, and the media type of the keyframe is
\* that of the first image whatever the remaining images are.
C22_FirstImageWins ==
    args # <<>> /\ Len(Input.inspirationImages) > 0 =>
        /\ \A i \in CallsOf("imageEdit") :
              /\ events[i].request.data = Input.inspirationImages[1].base64
              /\ events[i].request.mimeType = Input.inspirationImages[1].mimeType
              /\ events[i].request.data \notin OtherImageBytes
        /\ \A i \in CallsOf("generateVideos") :
              /\ events[i].request.imageBytes \notin OtherImageBytes
              /\ events[i].request.mimeType = Input.inspirationImages[1].mimeType
        /\ keyframeMimeType = Input.inspirationImages[1].mimeType

\* a brief with a PNG first and a JPEG second has reached the image-edit call
C22_Witness ==
    /\ args # <<>>
    /\ Input.inspirationImages = <<PngFile, JpegFile>>
    /\ Called("imageEdit")
    /\ RequestOf("imageEdit").data = "b64-a"

\* C23 as stated: "editing inspiration image" is reported only in runs that
\* then call image edit; a run that fails because the edit prompt is missing
\* never reports it.
C23_EditingReportedOnlyWithEdit ==
    /\ logged = <<EditPromptMissingMsg>> => ~Reported(MsgEditingImage)
    /\ ( /\ args # <<>> /\ ~Arg.cbThrows
         /\ pc \notin {"idle", "prompts_edit"}
         /\ Reported(MsgEditingImage) )
       => Called("imageEdit")

\* C24: whenever the stage is RESULT, finalVideoUrl, finalKeyframeUrl and
\* selectedScript are non-null and error is null; the stage becomes RESULT only
\* in the step that stores the video and keyframe of the resolved run that was
\* started for selectedScript, and they stay as stored while the result is shown.
C24_ResultIsComplete ==
    /\ [](stage = StageRESULT =>
            /\ finalVideoUrl \notin {Null, ""}
            /\ finalKeyframeUrl # <<>>
            /\ selectedScript # <<>>
            /\ error = Null)
    /\ [][ (stage # StageRESULT /\ stage' = StageRESULT)
             => /\ pc = "settled" /\ outcome.kind = "resolved"
                /\ selectedScript = <<Arg.script>>
                /\ selectedScript' = selectedScript
                /\ finalVideoUrl' = outcome.videoUrl
                /\ finalKeyframeUrl' = outcome.keyframeUrl
                /\ finalKeyframeUrl' = KeyframeUrl(keyframeMimeType, keyframeBase64) ]_vars
    /\ [][ (stage = StageRESULT /\ stage' = StageRESULT)
             => UNCHANGED <<finalVideoUrl, finalKeyframeUrl, selectedScript>> ]_vars

\* the result of a run on the synthesis path is shown
C24_Witness ==
    /\ stage = StageRESULT
    /\ finalVideoUrl = "blob:video"
    /\ selectedScript # <<>>
    /\ finalKeyframeUrl[2] = "image/png"

IsImageType(mimeType) == mimeType \in {"image/png", "image/jpeg"}

IsVideoType(mimeType) == mimeType \in {"video/mp4"}

\* C25 as stated: every file in inspirationImages has an image media type and
\* no file with a video media type is in it (uploaded videos are in
\* inspirationVideos), so that a run started after uploading only videos does
\* not take the edit path.
C25_UploadsSortedByType ==
    /\ \A i \in DOMAIN userInput.inspirationImages :
          /\ IsImageType(userInput.inspirationImages[i].mimeType)
          /\ ~IsVideoType(userInput.inspirationImages[i].mimeType)
    /\ \A i \in DOMAIN userInput.inspirationVideos :
          IsVideoType(userInput.inspirationVideos[i].mimeType)
    /\ args # <<>> /\ (\A i \in DOMAIN Input.inspirationImages :
                          IsVideoType(Input.inspirationImages[i].mimeType))
          => ~Called("imageEdit") /\ ~(pc = "prompts_edit")

\* C27 as stated: the stage becomes SCRIPT_SELECT only from FINETUNING or from
\* GENERATING_VIDEO, scripts is non-empty whenever the stage is SCRIPT_SELECT,
\* and a script generation that completes while the stage is INSPIRATION or
\* IDEA leaves the stage where it is.
C27_ScriptSelectOnlyFromFinetuning ==
    /\ [](stage = StageSCRIPT_SELECT => scripts # <<>>)
    /\ [][ (stage # StageSCRIPT_SELECT /\ stage' = StageSCRIPT_SELECT)
             => stage \in {StageFINETUNING, StageGENERATING_VIDEO} ]_vars
    /\ [][ (sgPc = "settled" /\ sgPc' = "idle" /\ stage \in {StageINSPIRATION, StageIDEA})
             => stage' = stage ]_vars

\* C28 as stated: on the synthesis path the aspect ratio named in the text
\* request for the image prompt is the aspect ratio passed to the
\* image-synthesis call, for every input value.
C28_SameAspectRatioInBothRequests ==
    \A i \in CallsOf("imagePrompt"), j \in CallsOf("generateImages") :
        events[i].request.aspectRatio = events[j].request.aspectRatio

ProgressEvents == SelectSeq(events, LAMBDA e : e.type = "progress")

\* C26 as stated: while the stage is GENERATING_VIDEO and a run is in flight,
\* loadingMessage is the most recent progress message the run reported, and no
\* step other than a progress report of the run changes it.
C26_LoadingMessageIsLastProgress ==
    /\ [](stage = StageGENERATING_VIDEO /\ pc \notin {"idle", "settled"}
            /\ EffectsFlushed /\ ProgressEvents # <<>>
          => loadingMessage = ProgressEvents[Len(ProgressEvents)].message)
    /\ [][ (stage = StageGENERATING_VIDEO /\ pc # "idle" /\ loadingMessage' # loadingMessage)
             => \E i \in DOMAIN events' :
                    /\ i > Len(events)
                    /\ events'[i].type = "progress"
                    /\ events'[i].message = loadingMessage' ]_vars

====
